---- MODULE Spec2Model ----
(***************************************************************************)
(* The request helpers of safer-typescript-examples (src/example-01.tsx to *)
(* src/example-05.tsx), their derived helpers and the default exports that *)
(* call them, as a state machine over in-flight invocations.               *)
(*                                                                         *)
(* JavaScript values are tagged records [t, v]; JSON text is a sequence of *)
(* tokens [k, s], so that serialising and parsing are computed and a round *)
(* trip can fail.                                                          *)
(***************************************************************************)
EXTENDS Integers, Sequences, FiniteSets, TLC

\* Number of invocation slots (invocations that can exist at once).
MaxCalls == 2
\* Largest userId the callers pass to getUser, getUserName and getUserRoles.
MaxUserId == 1

Slots == 1..MaxCalls
UserIds == 1..MaxUserId

(***************************************************************************)
(* JavaScript values                                                       *)
(***************************************************************************)
Undefined == [t |-> "undefined", v |-> <<>>]
Null == [t |-> "null", v |-> <<>>]
Bool(b) == [t |-> "boolean", v |-> b]
Num(n) == [t |-> "number", v |-> n]
Str(s) == [t |-> "string", v |-> s]
\* An object is the sequence of its own enumerable properties, in insertion order.
Prop(key, val) == [k |-> key, val |-> val]
Obj(props) == [t |-> "object", v |-> props]
Arr(items) == [t |-> "array", v |-> items]
\* A reference back to an enclosing object (what makes a structure circular).
Cycle == [t |-> "cycle", v |-> <<>>]

Kumar == Obj(<<Prop("name", Str("Kumar"))>>)
Anon == Obj(<<Prop("name", Str(""))>>)
\* A User whose extra property refers back to the user itself.
CircularUser == Obj(<<Prop("name", Str("Kumar")), Prop("self", Cycle)>>)
AdminRoles == Arr(<<Obj(<<Prop("type", Str("admin"))>>)>>)
ErrorPayload == Obj(<<Prop("error", Str("oops"))>>)

\* JavaScript truthiness, as the conditional operator of request applies it.
Truthy(x) ==
  CASE x.t = "undefined" -> FALSE
    [] x.t = "null" -> FALSE
    [] x.t = "boolean" -> x.v
    [] x.t = "number" -> x.v # 0
    [] x.t = "string" -> x.v # ""
    [] OTHER -> TRUE

(***************************************************************************)
(* JSON text: tokens                                                       *)
(***************************************************************************)
Tok(kind, s) == [k |-> kind, s |-> s]
Punct(s) == Tok("punct", s)
Digits == <<"0", "1", "2", "3", "4", "5", "6", "7", "8", "9">>
NumLit(n) == Digits[n + 1]
IsNumLit(s) == \E n \in 0..9 : Digits[n + 1] = s
NumOf(s) == CHOOSE n \in 0..9 : Digits[n + 1] = s

RECURSIVE HasCycle(_)
HasCycle(x) ==
  CASE x.t = "cycle" -> TRUE
    [] x.t = "object" -> \E j \in 1..Len(x.v) : HasCycle(x.v[j].val)
    [] x.t = "array" -> \E j \in 1..Len(x.v) : HasCycle(x.v[j])
    [] OTHER -> FALSE

RECURSIVE Tokens(_), MemberTokens(_, _, _), ElementTokens(_, _)
\* The tokens JSON.stringify writes for a value without cycles.
Tokens(x) ==
  CASE x.t = "null" -> <<Tok("lit", "null")>>
    [] x.t = "boolean" -> <<Tok("lit", IF x.v THEN "true" ELSE "false")>>
    [] x.t = "number" -> <<Tok("num", NumLit(x.v))>>
    [] x.t = "string" -> <<Tok("str", x.v)>>
    [] x.t = "object" -> <<Punct("{")>> \o MemberTokens(x.v, 1, TRUE) \o <<Punct("}")>>
    [] x.t = "array" -> <<Punct("[")>> \o ElementTokens(x.v, 1) \o <<Punct("]")>>
    [] OTHER -> <<>>
\* Properties whose value is undefined are left out.
MemberTokens(props, j, first) ==
  IF j > Len(props) THEN <<>>
  ELSE IF props[j].val.t = "undefined" THEN MemberTokens(props, j + 1, first)
  ELSE (IF first THEN <<>> ELSE <<Punct(",")>>)
       \o <<Tok("str", props[j].k), Punct(":")>> \o Tokens(props[j].val)
       \o MemberTokens(props, j + 1, FALSE)
\* An undefined array element is written as null.
ElementTokens(items, j) ==
  IF j > Len(items) THEN <<>>
  ELSE (IF j = 1 THEN <<>> ELSE <<Punct(",")>>)
       \o (IF items[j].t = "undefined" THEN <<Tok("lit", "null")>> ELSE Tokens(items[j]))
       \o ElementTokens(items, j + 1)

NoText == [kind |-> "undefined", toks |-> <<>>]
Text(toks) == [kind |-> "text", toks |-> toks]
Throws == [kind |-> "throw", toks |-> <<>>]

\* JSON.stringify(x): a text, undefined (for undefined), or a TypeError.
Stringify(x) ==
  IF HasCycle(x) THEN Throws
  ELSE IF x.t = "undefined" THEN NoText
  ELSE Text(Tokens(x))

(***************************************************************************)
(* JSON text: parsing (what Response.json() does with the body's text)     *)
(***************************************************************************)
ParseFail == [ok |-> FALSE, val |-> Undefined, next |-> 0]
Parsed(val, next) == [ok |-> TRUE, val |-> val, next |-> next]

RECURSIVE ParseValue(_, _), ParseMembers(_, _, _), ParseElements(_, _, _)
ParseValue(toks, p) ==
  IF p > Len(toks) THEN ParseFail
  ELSE LET tk == toks[p] IN
    CASE tk = Tok("lit", "null") -> Parsed(Null, p + 1)
      [] tk = Tok("lit", "true") -> Parsed(Bool(TRUE), p + 1)
      [] tk = Tok("lit", "false") -> Parsed(Bool(FALSE), p + 1)
      [] tk.k = "num" /\ IsNumLit(tk.s) -> Parsed(Num(NumOf(tk.s)), p + 1)
      [] tk.k = "str" -> Parsed(Str(tk.s), p + 1)
      [] tk = Punct("{") ->
           IF p + 1 <= Len(toks) /\ toks[p + 1] = Punct("}")
           THEN Parsed(Obj(<<>>), p + 2)
           ELSE ParseMembers(toks, p + 1, <<>>)
      [] tk = Punct("[") ->
           IF p + 1 <= Len(toks) /\ toks[p + 1] = Punct("]")
           THEN Parsed(Arr(<<>>), p + 2)
           ELSE ParseElements(toks, p + 1, <<>>)
      [] OTHER -> ParseFail
ParseMembers(toks, p, acc) ==
  IF p + 1 > Len(toks) \/ toks[p].k # "str" \/ toks[p + 1] # Punct(":") THEN ParseFail
  ELSE LET r == ParseValue(toks, p + 2) IN
    IF ~r.ok \/ r.next > Len(toks) THEN ParseFail
    ELSE LET acc2 == Append(acc, Prop(toks[p].s, r.val)) IN
      IF toks[r.next] = Punct("}") THEN Parsed(Obj(acc2), r.next + 1)
      ELSE IF toks[r.next] = Punct(",") THEN ParseMembers(toks, r.next + 1, acc2)
      ELSE ParseFail
ParseElements(toks, p, acc) ==
  LET r == ParseValue(toks, p) IN
    IF ~r.ok \/ r.next > Len(toks) THEN ParseFail
    ELSE LET acc2 == Append(acc, r.val) IN
      IF toks[r.next] = Punct("]") THEN Parsed(Arr(acc2), r.next + 1)
      ELSE IF toks[r.next] = Punct(",") THEN ParseElements(toks, r.next + 1, acc2)
      ELSE ParseFail

\* JSON.parse of a whole text: one value and nothing after it.
Parse(toks) ==
  LET r == ParseValue(toks, 1) IN
    IF r.ok /\ r.next = Len(toks) + 1 THEN r ELSE ParseFail

(***************************************************************************)
(* Promises, transport outcomes and errors                                 *)
(***************************************************************************)
Pending == [state |-> "pending", val |-> Undefined, err |-> ""]
Fulfilled(val) == [state |-> "fulfilled", val |-> val, err |-> ""]
Rejected(err) == [state |-> "rejected", val |-> Undefined, err |-> err]

\* What fetch can reject with (the transport is external to the repository).
TransportErrors == {"TypeError: Failed to fetch", "AbortError"}
EncodingError == "TypeError: cyclic object value"
DecodingError == "SyntaxError: Unexpected token in JSON"
PropertyError == "TypeError: Cannot read property 'name'"

NoNet == [kind |-> "none", err |-> "", status |-> 0, text |-> <<>>]
NetFailed(err) == [kind |-> "failed", err |-> err, status |-> 0, text |-> <<>>]
NetResponse(status, text) == [kind |-> "response", err |-> "", status |-> status, text |-> text]

Statuses == {200, 404, 500}
Malformed == <<Tok("junk", "<html>")>>
Truncated == <<Punct("{"), Tok("str", "name")>>
\* Values a server may encode as a response body.
ResponseValues == {Kumar, AdminRoles, ErrorPayload, Null, Num(0)}
Texts == {Tokens(val) : val \in ResponseValues} \cup {Malformed, Truncated, <<>>}

BaseUrl == "https://api.com/v1"
NoRequest == [url |-> "", method |-> "", body |-> NoText]
\* The arguments of one call of fetch.
FetchArgs(url, method, body) == [url |-> url, method |-> method, body |-> body]

(***************************************************************************)
(* Static typing of the body argument (example-05)                         *)
(***************************************************************************)
\* Descriptors differ at run time only in nothing; statically in BodyType.
\* Each of these satisfies the constraint BodyType: undefined | {}.
BodyTypes == {"undefined", "User", "number"}
Methods == {"GET", "POST"}

HasStringName(x) ==
  x.t = "object" /\ \E j \in 1..Len(x.v) : x.v[j].k = "name" /\ x.v[j].val.t = "string"
\* Whether a value inhabits a type, under strict null checks.
Assignable(x, type) ==
  CASE type = "undefined" -> x.t = "undefined"
    [] type = "User" -> HasStringName(x)
    [] type = "number" -> x.t = "number"
    [] OTHER -> FALSE
\* Faulty variant: a type-erased call, every argument accepted.
TypeChecksErased(bodyType, body) == TRUE
\* body?: D["BodyType"] accepts undefined and the values of BodyType.
TypeChecks(bodyType, body) == body.t = "undefined" \/ Assignable(body, bodyType)

(***************************************************************************)
(* Invocations                                                             *)
(***************************************************************************)
Idle ==
  [pc |-> "idle", fn |-> "none", via |-> "none", bodyType |-> "none", method |-> "none",
   endpoint |-> "", body |-> Undefined, sent |-> NoRequest, calls |-> 0, net |-> NoNet,
   res |-> Pending, hres |-> Pending]

\* A call the compiler rejects: nothing of it ever runs.
CompileError(bodyType, method, endpoint, body) ==
  [Idle EXCEPT !.pc = "type_error", !.fn = "request05", !.via = "direct",
               !.bodyType = bodyType, !.method = method, !.endpoint = endpoint,
               !.body = body]

\* Faulty variant: the body is serialised whenever the parameter is there.
BodyInitAlways(body) == Stringify(body)
\* body ? JSON.stringify(body) : undefined
BodyInit(body) == IF Truthy(body) THEN Stringify(body) ELSE NoText

\* request of example-05, up to its first await: the fetch call is made, unless
\* evaluating its arguments throws, which rejects the returned promise at once.
request05(via, bodyType, method, endpoint, body) ==
  LET init == BodyInit(body)
      base == [Idle EXCEPT !.fn = "request05", !.via = via, !.bodyType = bodyType,
                           !.method = method, !.endpoint = endpoint, !.body = body]
  IN IF init.kind = "throw"
     THEN [base EXCEPT !.pc = "settled", !.res = Rejected(EncodingError)]
     ELSE [base EXCEPT !.pc = "await_fetch", !.calls = 1,
                       !.sent = FetchArgs(BaseUrl \o endpoint, method, init)]

\* request of example-01 to example-04: fetch(url), no init argument.
request04(via, endpoint) ==
  [Idle EXCEPT !.fn = "request04", !.via = via, !.endpoint = endpoint,
               !.pc = "await_fetch", !.calls = 1,
               !.sent = FetchArgs(BaseUrl \o endpoint, "", NoText)]

UserPath(userId) == "/users/" \o NumLit(userId)
RolesPath(userId) == "/users/" \o NumLit(userId) \o "/roles"

getUser(userId) == request05("getUser", "undefined", "GET", UserPath(userId), Undefined)
createUser(user) == request05("createUser", "User", "POST", "/users", user)
getUserName(userId) == request04("getUserName", UserPath(userId))
getUserRoles(userId) == request04("getUserRoles", RolesPath(userId))

\* user.name
GetName(x) ==
  IF x.t \in {"object"} /\ \E j \in 1..Len(x.v) : x.v[j].k = "name"
  THEN x.v[CHOOSE j \in 1..Len(x.v) : x.v[j].k = "name"].val
  ELSE Undefined

\* What a derived helper's promise settles to, given its request's promise.
HelperOutcome(via, res) ==
  IF via = "getUserName" /\ res.state = "fulfilled"
  THEN (IF res.val.t \in {"null", "undefined"} THEN Rejected(PropertyError)
        ELSE Fulfilled(GetName(res.val)))
  ELSE res

\* Faulty variant: the decoded value is checked against the User shape.
JsonOutcomeValidated(text) ==
  LET r == Parse(text) IN
    IF r.ok /\ HasStringName(r.val) THEN Fulfilled(r.val) ELSE Rejected(DecodingError)
\* Faulty variant: a body that cannot be parsed decodes to null.
JsonOutcomeLenient(text) ==
  LET r == Parse(text) IN IF r.ok THEN Fulfilled(r.val) ELSE Fulfilled(Null)
\* return response.json(): the request's promise follows the parse.
JsonOutcome(text) ==
  LET r == Parse(text) IN IF r.ok THEN Fulfilled(r.val) ELSE Rejected(DecodingError)

VARIABLES inv, example, mainPc, mainErr, log
vars == <<inv, example, mainPc, mainErr, log>>
mainVars == <<example, mainPc, mainErr, log>>

Init ==
  /\ inv = [i \in Slots |-> Idle]
  /\ example = "none"
  /\ mainPc = "init"
  /\ mainErr = ""
  /\ log = <<>>

Set(i, slot) == inv' = [inv EXCEPT ![i] = slot]
Alone(i) == \A j \in Slots \ {i} : inv[j].pc = "idle"

\* Values callers pass as body, and the users they create.
Bodies == {Undefined, Null, Num(0), Num(1), Kumar, CircularUser}
Users == {Kumar, Anon, CircularUser}
Endpoints == {"/users", "/users/1"}

\* A call site request<D>(method, endpoint, body), as the compiler sees it.
CallRequest(i, bodyType, method, endpoint, body) ==
  /\ inv[i].pc = "idle"
  /\ IF TypeChecks(bodyType, body)
     THEN Set(i, request05("direct", bodyType, method, endpoint, body))
     ELSE Set(i, CompileError(bodyType, method, endpoint, body))
  /\ UNCHANGED mainVars

CallGetUser(i, userId) ==
  /\ inv[i].pc = "idle"
  /\ Set(i, getUser(userId))
  /\ UNCHANGED mainVars

CallCreateUser(i, user) ==
  /\ inv[i].pc = "idle"
  /\ Set(i, createUser(user))
  /\ UNCHANGED mainVars

CallRequest04(i, endpoint) ==
  /\ inv[i].pc = "idle"
  /\ Set(i, request04("direct", endpoint))
  /\ UNCHANGED mainVars

CallGetUserName(i, userId) ==
  /\ inv[i].pc = "idle"
  /\ Set(i, getUserName(userId))
  /\ UNCHANGED mainVars

CallGetUserRoles(i, userId) ==
  /\ inv[i].pc = "idle"
  /\ Set(i, getUserRoles(userId))
  /\ UNCHANGED mainVars

\* The transport fails: the promise of fetch rejects.
TransportFail(i, err) ==
  /\ inv[i].pc = "await_fetch"
  /\ inv[i].net.kind = "none"
  /\ Set(i, [inv[i] EXCEPT !.net = NetFailed(err)])
  /\ UNCHANGED mainVars

\* The transport answers: the promise of fetch fulfils with a Response.
TransportRespond(i, status, text) ==
  /\ inv[i].pc = "await_fetch"
  /\ inv[i].net.kind = "none"
  /\ Set(i, [inv[i] EXCEPT !.net = NetResponse(status, text)])
  /\ UNCHANGED mainVars

\* Faulty variant: a failed fetch is caught and answered with a default value.
AfterFetchDefault(slot) ==
  IF slot.net.kind = "failed"
  THEN [slot EXCEPT !.pc = "settled", !.res = Fulfilled(Null)]
  ELSE [slot EXCEPT !.pc = "await_json"]
\* Faulty variant: a failed fetch is tried once more.
AfterFetchRetry(slot) ==
  IF slot.net.kind = "failed" /\ slot.calls < 2
  THEN [slot EXCEPT !.calls = @ + 1, !.net = NoNet]
  ELSE IF slot.net.kind = "failed"
  THEN [slot EXCEPT !.pc = "settled", !.res = Rejected(slot.net.err)]
  ELSE [slot EXCEPT !.pc = "await_json"]
\* Faulty variant: a response that is not ok is turned into a failure.
AfterFetchChecked(slot) ==
  IF slot.net.kind = "failed"
  THEN [slot EXCEPT !.pc = "settled", !.res = Rejected(slot.net.err)]
  ELSE IF slot.net.status \notin 200..299
  THEN [slot EXCEPT !.pc = "settled", !.res = Rejected("HttpError")]
  ELSE [slot EXCEPT !.pc = "await_json"]
\* const response = await fetch(...): a rejection is thrown out of request,
\* a response of any status goes on to response.json().
AfterFetch(slot) ==
  IF slot.net.kind = "failed"
  THEN [slot EXCEPT !.pc = "settled", !.res = Rejected(slot.net.err)]
  ELSE [slot EXCEPT !.pc = "await_json"]

\* request resumes after its await.
ResumeAfterFetch(i) ==
  /\ inv[i].pc = "await_fetch"
  /\ inv[i].net.kind # "none"
  /\ Set(i, AfterFetch(inv[i]))
  /\ UNCHANGED mainVars

\* Faulty variant: the response is kept in a variable that every invocation
\* shares, so an invocation may decode the response of another one.
JsonSettleShared(i) ==
  /\ inv[i].pc = "await_json"
  /\ LET others == {j \in Slots \ {i} : inv[j].net.kind = "response"}
         from == IF others = {} THEN i ELSE CHOOSE j \in others : TRUE
     IN Set(i, [inv[i] EXCEPT !.pc = "settled", !.res = JsonOutcome(inv[from].net.text)])
  /\ UNCHANGED mainVars
\* response.json() settles with the parse of the body's text.
JsonSettle(i) ==
  /\ inv[i].pc = "await_json"
  /\ Set(i, [inv[i] EXCEPT !.pc = "settled", !.res = JsonOutcome(inv[i].net.text)])
  /\ UNCHANGED mainVars

\* The connection breaks while the body is read: response.json() rejects.
BodyReadFail(i, err) ==
  /\ inv[i].pc = "await_json"
  /\ Set(i, [inv[i] EXCEPT !.pc = "settled", !.res = Rejected(err),
                           !.net = [@ EXCEPT !.kind = "failed", !.err = err]])
  /\ UNCHANGED mainVars

IsHelper(slot) == slot.via \in {"getUser", "createUser", "getUserName", "getUserRoles"}

\* The promise of a derived helper follows the promise of its request.
HelperSettle(i) ==
  /\ inv[i].pc = "settled"
  /\ IsHelper(inv[i])
  /\ inv[i].hres.state = "pending"
  /\ Set(i, [inv[i] EXCEPT !.hres = HelperOutcome(inv[i].via, inv[i].res)])
  /\ UNCHANGED mainVars

(***************************************************************************)
(* The default exports                                                     *)
(***************************************************************************)
LoggedValue(val) == [kind |-> "value", val |-> val, err |-> "", slot |-> 0]
LoggedError(err) == [kind |-> "error", val |-> Undefined, err |-> err, slot |-> 0]
\* console.log of a promise prints the promise object, whatever it settles to.
LoggedPromise(i) == [kind |-> "promise", val |-> Undefined, err |-> "", slot |-> i]

\* Faulty variant: a failure is caught and logged, and the function goes on.
AfterAwaitCatch(promise) ==
  IF promise.state = "fulfilled"
  THEN [ok |-> TRUE, logged |-> <<LoggedValue(promise.val)>>, err |-> ""]
  ELSE [ok |-> TRUE, logged |-> <<LoggedError(promise.err)>>, err |-> ""]
\* console.log(await p): the value is logged, a rejection is thrown instead.
AfterAwait(promise) ==
  IF promise.state = "fulfilled"
  THEN [ok |-> TRUE, logged |-> <<LoggedValue(promise.val)>>, err |-> ""]
  ELSE [ok |-> FALSE, logged |-> <<>>, err |-> promise.err]

\* example-01 and example-02: console.log(getUserName(1)), all in one turn.
Start01 ==
  /\ mainPc = "init"
  /\ example' = "01"
  /\ inv' = [inv EXCEPT ![1] = getUserName(1)]
  /\ log' = Append(log, LoggedPromise(1))
  /\ mainPc' = "returned"
  /\ UNCHANGED mainErr

\* example-03 and example-04: both helpers are called, and both promises
\* logged, before either request can make progress.
Start04 ==
  /\ mainPc = "init"
  /\ example' = "04"
  /\ inv' = [inv EXCEPT ![1] = getUserName(1), ![2] = getUserRoles(1)]
  /\ log' = log \o <<LoggedPromise(1), LoggedPromise(2)>>
  /\ mainPc' = "returned"
  /\ UNCHANGED mainErr

\* example-05: the async default export runs up to await getUser(1).
Start05 ==
  /\ mainPc = "init"
  /\ example' = "05"
  /\ inv' = [inv EXCEPT ![1] = getUser(1)]
  /\ mainPc' = "await_getUser"
  /\ UNCHANGED <<mainErr, log>>

\* example-05 resumes with the outcome of getUser(1).
Continue05GetUser ==
  /\ mainPc = "await_getUser"
  /\ inv[1].hres.state # "pending"
  /\ LET a == AfterAwait(inv[1].hres) IN
       /\ log' = log \o a.logged
       /\ IF a.ok
          THEN /\ inv' = [inv EXCEPT ![2] = createUser(Kumar)]
               /\ mainPc' = "await_createUser"
               /\ UNCHANGED mainErr
          ELSE /\ mainPc' = "rejected"
               /\ mainErr' = a.err
               /\ UNCHANGED inv
  /\ UNCHANGED example

\* example-05 resumes with the outcome of createUser({ name: "Kumar" }).
Continue05CreateUser ==
  /\ mainPc = "await_createUser"
  /\ inv[2].hres.state # "pending"
  /\ LET a == AfterAwait(inv[2].hres) IN
       /\ log' = log \o a.logged
       /\ IF a.ok
          THEN mainPc' = "returned" /\ UNCHANGED mainErr
          ELSE mainPc' = "rejected" /\ mainErr' = a.err
  /\ UNCHANGED <<inv, example>>

(***************************************************************************)
(* Specifications                                                          *)
(***************************************************************************)
Transport(i) ==
  \/ \E err \in TransportErrors : TransportFail(i, err)
  \/ \E status \in Statuses, text \in Texts : TransportRespond(i, status, text)
  \/ \E err \in TransportErrors : BodyReadFail(i, err)

Run(i) ==
  \/ ResumeAfterFetch(i)
  \/ JsonSettle(i)
  \/ HelperSettle(i)

\* Spec: one invocation on its own, over every input.
Next ==
  \E i \in Slots :
    \/ Alone(i) /\ \E bodyType \in BodyTypes, method \in Methods, endpoint \in Endpoints,
                      body \in Bodies : CallRequest(i, bodyType, method, endpoint, body)
    \/ Alone(i) /\ \E userId \in UserIds : CallGetUser(i, userId)
    \/ Alone(i) /\ \E user \in Users : CallCreateUser(i, user)
    \/ Alone(i) /\ \E endpoint \in Endpoints : CallRequest04(i, endpoint)
    \/ Alone(i) /\ \E userId \in UserIds : CallGetUserName(i, userId)
    \/ Alone(i) /\ \E userId \in UserIds : CallGetUserRoles(i, userId)
    \/ Transport(i)
    \/ Run(i)

Spec == Init /\ [][Next]_vars

\* SpecConc: several invocations in flight at once. Slots are taken in the
\* order of the calls, so a lower slot is an earlier call.
InOrder(i) == \A j \in Slots : j < i => inv[j].pc # "idle"
ConcTexts == {Tokens(Kumar), Malformed}

NextConc ==
  \E i \in Slots :
    \/ InOrder(i) /\ \E userId \in UserIds : CallGetUser(i, userId)
    \/ InOrder(i) /\ CallCreateUser(i, Anon)
    \/ InOrder(i) /\ \E userId \in UserIds : CallGetUserRoles(i, userId)
    \/ TransportFail(i, "AbortError")
    \/ \E text \in ConcTexts : TransportRespond(i, 200, text)
    \/ Run(i)

SpecConc == Init /\ [][NextConc]_vars

\* SpecMain: the default exports, with the transport free to answer anything.
NextMain ==
  \/ Start01
  \/ Start04
  \/ Start05
  \/ Continue05GetUser
  \/ Continue05CreateUser
  \/ \E i \in Slots : Transport(i) \/ Run(i)

SpecMain == Init /\ [][NextMain]_vars

\* The event loop runs every continuation that is ready; nothing makes the
\* transport answer.
FairSpecMain ==
  /\ SpecMain
  /\ \A i \in Slots : WF_vars(Run(i))
  /\ WF_vars(Continue05GetUser)
  /\ WF_vars(Continue05CreateUser)

(***************************************************************************)
(* Claims                                                                  *)
(***************************************************************************)
Called(i) == inv[i].calls > 0
Settled(i) == inv[i].pc = "settled"
Is05(i) == inv[i].fn = "request05"
Range(seq) == {seq[k] : k \in 1..Len(seq)}

C2_PostBodyIsSerialization ==
  \A i \in Slots :
    Is05(i) /\ inv[i].method = "POST" /\ inv[i].bodyType # "undefined" /\ Called(i)
    => inv[i].sent.body = Stringify(inv[i].body)

C4_TransportFailurePropagates ==
  \A i \in Slots :
    inv[i].net.kind = "failed"
    => /\ inv[i].res.state # "fulfilled"
       /\ Settled(i) => inv[i].res = Rejected(inv[i].net.err)
       /\ inv[i].hres.state # "pending" => inv[i].hres = Rejected(inv[i].net.err)

C4_Witness ==
  \E i \in Slots :
    /\ inv[i].via = "createUser"
    /\ inv[i].net = NetFailed("AbortError")
    /\ inv[i].hres = Rejected("AbortError")

NonJsonTexts == {Malformed, Truncated, <<>>}

\* C5: when the response body is not JSON, the promise of request rejects
\* with a decoding error and never fulfils.
C5_MalformedBodyRejects ==
  \A i \in Slots :
    inv[i].net.kind = "response" /\ inv[i].net.text \in NonJsonTexts
    => /\ inv[i].res.state # "fulfilled"
       /\ Settled(i) => inv[i].res = Rejected(DecodingError)

C5_Witness ==
  \E i \in Slots :
    /\ Is05(i) /\ inv[i].net.kind = "response" /\ inv[i].net.text = Malformed
    /\ inv[i].res = Rejected(DecodingError)

\* C6 (as stated): every invocation that has settled made exactly one call
\* of fetch.
C6_ExactlyOneCall ==
  \A i \in Slots : Settled(i) => inv[i].calls = 1

\* C6 (amended): an invocation never calls fetch twice; it calls fetch once
\* unless serialising its body throws, and then it fails without any call;
\* no invocation fulfils without a response of its one call.
C6_OneCallUnlessEncodingFails ==
  \A i \in Slots :
    /\ inv[i].calls <= 1
    /\ inv[i].pc \in {"await_fetch", "await_json"} => inv[i].calls = 1
    /\ Settled(i) /\ inv[i].calls = 0
       => inv[i].res = Rejected(EncodingError) /\ HasCycle(inv[i].body)
    /\ inv[i].res.state = "fulfilled" => inv[i].calls = 1 /\ inv[i].net.kind = "response"

C6_Witness ==
  \E i \in Slots :
    /\ Settled(i) /\ inv[i].calls = 1
    /\ inv[i].net.kind = "failed" /\ inv[i].res.state = "rejected"

\* C7: when the transport answers with the encoding of a value, request
\* fulfils with a value structurally equal to it.
C7_RoundTrip ==
  \A i \in Slots : \A val \in ResponseValues :
    inv[i].net.kind = "response" /\ inv[i].net.text = Tokens(val) /\ Settled(i)
    => inv[i].res = Fulfilled(val)

C7_Witness ==
  \E i \in Slots :
    /\ Is05(i) /\ inv[i].method = "GET" /\ inv[i].endpoint = "/users/1"
    /\ inv[i].net.kind = "response" /\ inv[i].net.text = Tokens(Kumar)
    /\ inv[i].res = Fulfilled(Kumar)

\* C9: a response with a non-success status is decoded like any other: the
\* promise fulfils with the decoded value, and it rejects only when the body
\* cannot be parsed.
C9_StatusIgnored ==
  \A i \in Slots :
    inv[i].net.kind = "response" /\ inv[i].net.status \notin 200..299 /\ Settled(i)
    => IF Parse(inv[i].net.text).ok
       THEN inv[i].res = Fulfilled(Parse(inv[i].net.text).val)
       ELSE inv[i].res = Rejected(DecodingError)

C9_Witness ==
  \E i \in Slots :
    /\ inv[i].net.kind = "response" /\ inv[i].net.status = 500
    /\ inv[i].net.text = Tokens(ErrorPayload)
    /\ inv[i].res = Fulfilled(ErrorPayload)

\* The result of an invocation is the outcome of its own call of fetch.
OwnOutcome(i) ==
  Settled(i) /\ Called(i)
  => \/ inv[i].net.kind = "failed" /\ inv[i].res = Rejected(inv[i].net.err)
     \/ /\ inv[i].net.kind = "response"
        /\ inv[i].res = IF Parse(inv[i].net.text).ok
                        THEN Fulfilled(Parse(inv[i].net.text).val)
                        ELSE Rejected(DecodingError)
\* The next step of an invocation is enabled whatever the others do.
NotBlocked(i) ==
  /\ inv[i].pc = "await_fetch" /\ inv[i].net.kind # "none" => ENABLED ResumeAfterFetch(i)
  /\ inv[i].pc = "await_json" => ENABLED JsonSettle(i)
  /\ Settled(i) /\ IsHelper(inv[i]) /\ inv[i].hres.state = "pending" => ENABLED HelperSettle(i)
\* C8: invocations in flight at once are independent: each settles with the
\* outcome of its own call of fetch, and each can take its next step whatever
\* state the others are in.
C8_InvocationsIndependent ==
  \A i \in Slots : OwnOutcome(i) /\ NotBlocked(i)

\* A later call has completed while an earlier one still waits for its
\* transport.
C8_Witness ==
  \E i, j \in Slots :
    /\ i < j
    /\ inv[i].pc = "await_fetch" /\ inv[i].net.kind = "none"
    /\ inv[j].hres = Fulfilled(Kumar)

Quiescent ==
  /\ mainPc \in {"returned", "rejected"}
  /\ \A i \in Slots : inv[i].pc = "idle" \/ (Settled(i) /\ inv[i].hres.state # "pending")
OutcomeEntry(promise) ==
  IF promise.state = "fulfilled" THEN LoggedValue(promise.val) ELSE LoggedError(promise.err)
\* C10 (as stated): once an example has run to its end, the outcome of every
\* helper call it made, value or failure, has been passed to the log.
C10_EveryOutcomeLogged ==
  Quiescent => \A i \in Slots : inv[i].pc # "idle" => OutcomeEntry(inv[i].hres) \in Range(log)

\* What example-05 has logged so far: the values it has awaited with success.
Log05 ==
  (IF inv[2].pc # "idle" THEN <<LoggedValue(inv[1].hres.val)>> ELSE <<>>)
  \o (IF mainPc = "returned" THEN <<LoggedValue(inv[2].hres.val)>> ELSE <<>>)
LogShape ==
  /\ \A k \in 1..Len(log) : log[k].kind # "error"
  /\ example = "01" => log = <<LoggedPromise(1)>>
  /\ example = "04" => log = <<LoggedPromise(1), LoggedPromise(2)>>
  /\ example = "05" =>
       /\ log = Log05
       /\ inv[2].pc # "idle" => inv[1].hres.state = "fulfilled"
       /\ mainPc = "returned" => inv[2].hres.state = "fulfilled"
       /\ mainPc = "rejected" =>
            IF inv[2].pc = "idle"
            THEN inv[1].hres = Rejected(mainErr)
            ELSE inv[2].hres = Rejected(mainErr)
\* C10 (amended): example-05 logs the value of each helper call that
\* succeeds, in call order; a failure is never logged: it rejects the default
\* export with the same error and the calls after it are not made. Examples
\* 01 to 04 log the promises themselves, before any outcome exists.
C10_SuccessesLoggedFailuresThrown ==
  /\ []LogShape
  /\ \A i \in 1..2 :
       (example = "05" /\ inv[i].hres.state = "fulfilled")
         ~> (LoggedValue(inv[i].hres.val) \in Range(log))
  /\ \A i \in 1..2 :
       (example = "05" /\ inv[i].hres.state = "rejected")
         ~> (mainPc = "rejected" /\ mainErr = inv[i].hres.err)

C10_Witness ==
  /\ example = "05"
  /\ mainPc = "rejected"
  /\ inv[1].hres = Fulfilled(Kumar)
  /\ inv[2].hres = Rejected("AbortError")
  /\ log = <<LoggedValue(Kumar)>>
====
